---- MODULE Spec2Model ----
(***************************************************************************)
(* A model of the dependency package (src/dependency/core.py and           *)
(* src/dependency/wrappers.py): the Injector (provider registry and        *)
(* required state), the plan builder (get_key, create_step, create_steps,  *)
(* Injector.inject) and the plan runner (InjectedFunction.__call__ with    *)
(* its contextlib.ExitStack).                                              *)
(***************************************************************************)
EXTENDS Naturals, Sequences, FiniteSets, TLC

(***************************************************************************)
(* Python values that have no TLA+ counterpart.                            *)
(***************************************************************************)
\* Python's None where a name (a type, a parameter name) is expected.
None == "<None>"

\* The dependency.ParamName marker type (core.py line 6).
ParamName == "ParamName"

\* inspect.Signature.empty: a parameter or a return without annotation.
Empty == "_empty"

\* An annotation given as a string (a forward reference that was never
\* evaluated), as in `def f(session: 'Session')`: a str, not a class.
StrAnn == "'Session'"

(***************************************************************************)
(* Bounds of the model.                                                    *)
(***************************************************************************)
\* The interpreter's recursion limit, scaled to the size of the registries.
RecursionLimit == 6

\* How many add_provider calls a behaviour makes after construction.
MaxAdds == 1

\* How many callables a behaviour registers with wrappers.provider.
MaxRegistrations == 3

(***************************************************************************)
(* The classes used as dependency types.  ClassChars gives cls.__name__    *)
(* as a sequence of characters.  "Token" and "token" are distinct classes  *)
(* whose names differ by case only.                                        *)
(***************************************************************************)
ClassChars ==
  [ Environ   |-> <<"E","n","v","i","r","o","n">>,
    Method    |-> <<"M","e","t","h","o","d">>,
    Headers   |-> <<"H","e","a","d","e","r","s">>,
    Session   |-> <<"S","e","s","s","i","o","n">>,
    Conn      |-> <<"C","o","n","n">>,
    Lock      |-> <<"L","o","c","k">>,
    Quiet     |-> <<"Q","u","i","e","t">>,
    Lookups   |-> <<"L","o","o","k","u","p","s">>,
    Lookup    |-> <<"L","o","o","k","u","p">>,
    Token     |-> <<"T","o","k","e","n">>,
    token     |-> <<"t","o","k","e","n">>,
    Carrier   |-> <<"C","a","r","r","i","e","r">>,
    A         |-> <<"A">>,
    B         |-> <<"B">>,
    Missing   |-> <<"M","i","s","s","i","n","g">>,
    _empty    |-> <<"_","e","m","p","t","y">>,
    ParamName |-> <<"P","a","r","a","m","N","a","m","e">> ]

Classes == DOMAIN ClassChars

\* The dependency types: every class but the ParamName marker and
\* inspect's marker of a missing annotation.
Types == Classes \ {ParamName, Empty}

\* Classes that define __enter__, and classes that define __exit__.
HasEnter == {"Session", "Conn", "Lock", "Quiet", "Carrier"}

HasExit == {"Session", "Conn", "Lock", "Quiet"}

\* Classes that define both: the context managers.
ContextManagers == HasEnter \cap HasExit

\* What a class's __exit__ does: "none" returns None, "suppress" returns
\* True, "raise" raises an exception of its own.
ExitBehaviour(cls) ==
  CASE cls = "Quiet" -> "suppress"
    [] cls = "Lock" -> "raise"
    [] OTHER        -> "none"

(***************************************************************************)
(* str.lower(), character by character.                                    *)
(***************************************************************************)
UpperChars ==
  <<"A","B","C","D","E","F","G","H","I","J","K","L","M",
    "N","O","P","Q","R","S","T","U","V","W","X","Y","Z">>

LowerChars ==
  <<"a","b","c","d","e","f","g","h","i","j","k","l","m",
    "n","o","p","q","r","s","t","u","v","w","x","y","z">>

LowerChar(c) ==
  IF \E i \in 1..Len(UpperChars) : UpperChars[i] = c
  THEN LowerChars[CHOOSE i \in 1..Len(UpperChars) : UpperChars[i] = c]
  ELSE c

RECURSIVE Join(_)
Join(chars) ==
  IF chars = <<>> THEN "" ELSE Head(chars) \o Join(Tail(chars))

Lower(chars) == [i \in 1..Len(chars) |-> LowerChar(chars[i])]

\* cls.__name__.lower() for every class, computed once.
LowerName == [cls \in Classes |-> Join(Lower(ClassChars[cls]))]

(***************************************************************************)
(* The callables: inspect.signature(func) of each, as the parameters in    *)
(* declaration order (name, annotation) and the return annotation.         *)
(***************************************************************************)
Param(n, a) == [name |-> n, ann |-> a]

Funcs ==
  [ get_method   |-> [params |-> <<Param("environ", "Environ")>>,
                      ret |-> "Method"],
    get_headers  |-> [params |-> <<Param("environ", "Environ")>>,
                      ret |-> "Headers"],
    get_headers2 |-> [params |-> <<Param("method", "Method"),
                                   Param("environ", "Environ")>>,
                      ret |-> "Headers"],
    new_session  |-> [params |-> <<>>, ret |-> "Session"],
    open_conn    |-> [params |-> <<Param("session", "Session")>>,
                      ret |-> "Conn"],
    take_lock    |-> [params |-> <<Param("session", "Session")>>,
                      ret |-> "Lock"],
    hush         |-> [params |-> <<Param("session", "Session")>>,
                      ret |-> "Quiet"],
    get_lookup   |-> [params |-> <<Param("name", ParamName),
                                   Param("lookups", "Lookups")>>,
                      ret |-> "Lookup"],
    new_token    |-> [params |-> <<>>, ret |-> "Token"],
    wrap_token   |-> [params |-> <<Param("raw", "token")>>,
                      ret |-> "Token"],
    raw_token    |-> [params |-> <<>>, ret |-> "token"],
    named_wrap   |-> [params |-> <<Param("name", ParamName),
                                   Param("a", "token")>>,
                      ret |-> "Token"],
    named_raw    |-> [params |-> <<Param("name", ParamName)>>,
                      ret |-> "token"],
    carry        |-> [params |-> <<Param("a", "Token")>>,
                      ret |-> "Carrier"],
    make_a       |-> [params |-> <<Param("b", "B")>>, ret |-> "A"],
    make_b       |-> [params |-> <<Param("a", "A")>>, ret |-> "B"],
    token_of_a   |-> [params |-> <<Param("a", "A")>>, ret |-> "Token"],
    \* providers with a parameter that has no annotation, or a string
    bare_lock    |-> [params |-> <<Param("session", "Session"),
                                   Param("flag", Empty)>>,
                      ret |-> "Lock"],
    lazy_conn    |-> [params |-> <<Param("session", StrAnn)>>,
                      ret |-> "Conn"],
    \* the targets: no return annotation
    echo         |-> [params |-> <<Param("method", "Method"),
                                   Param("headers", "Headers")>>,
                      ret |-> Empty],
    do_something |-> [params |-> <<Param("session", "Session")>>,
                      ret |-> Empty],
    use_all      |-> [params |-> <<Param("conn", "Conn"),
                                   Param("lock", "Lock"),
                                   Param("session", "Session")>>,
                      ret |-> Empty],
    use_quiet    |-> [params |-> <<Param("quiet", "Quiet"),
                                   Param("conn", "Conn")>>,
                      ret |-> Empty],
    make_lookups |-> [params |-> <<Param("a", "Lookup"),
                                   Param("b", "Lookup")>>,
                      ret |-> Empty],
    use_tokens   |-> [params |-> <<Param("a", "Token"),
                                   Param("b", "token")>>,
                      ret |-> Empty],
    use_carrier  |-> [params |-> <<Param("a", "token"),
                                   Param("c", "Carrier")>>,
                      ret |-> Empty],
    use_a        |-> [params |-> <<Param("a", "A")>>, ret |-> Empty],
    use_missing  |-> [params |-> <<Param("session", "Session"),
                                   Param("m", "Missing")>>,
                      ret |-> Empty],
    name_it      |-> [params |-> <<Param("name", ParamName),
                                   Param("a", "Lookup")>>,
                      ret |-> Empty],
    use_untyped  |-> [params |-> <<Param("method", "Method"),
                                   Param("flag", Empty)>>,
                      ret |-> Empty],
    use_forward  |-> [params |-> <<Param("session", StrAnn),
                                   Param("method", "Method")>>,
                      ret |-> Empty] ]

FuncNames == DOMAIN Funcs

\* The callables a behaviour registers with add_provider.
ProviderFuncs == {f \in FuncNames : Funcs[f].ret # Empty}

\* The callables a behaviour injects.
Targets == FuncNames \ ProviderFuncs

(***************************************************************************)
(* Finite maps (Python dicts) and small helpers.                           *)
(***************************************************************************)
EmptyMap == [x \in {} |-> None]

Range(f) == {f[x] : x \in DOMAIN f}

SeqRange(s) == {s[i] : i \in 1..Len(s)}

\* dict d with d[k] = v set.
Put(d, k, v) == [x \in DOMAIN d \cup {k} |-> IF x = k THEN v ELSE d[x]]

(***************************************************************************)
(* The configurations an Injector is constructed with                      *)
(* (Injector(providers=..., required_state=...)).                          *)
(***************************************************************************)
FullRegistry ==
  [ Method  |-> "get_method",
    Headers |-> "get_headers",
    Session |-> "new_session",
    Conn    |-> "open_conn",
    Lock    |-> "take_lock",
    Quiet   |-> "hush",
    Lookup  |-> "get_lookup",
    Token   |-> "wrap_token",
    token   |-> "raw_token",
    A       |-> "make_a",
    B       |-> "make_b" ]

PartRegistry ==
  [ Method  |-> "get_method",
    Headers |-> "get_headers2",
    Session |-> "new_session",
    Conn    |-> "open_conn",
    Lookup  |-> "get_lookup",
    Token   |-> "new_token" ]

NamedRegistry ==
  [ Session |-> "new_session",
    Lock    |-> "take_lock",
    Lookup  |-> "get_lookup",
    Token   |-> "named_wrap",
    token   |-> "named_raw",
    Carrier |-> "carry" ]

Registries == {EmptyMap, FullRegistry, PartRegistry, NamedRegistry}

RequiredStates ==
  { EmptyMap,
    [environ |-> "Environ", lookups |-> "Lookups"],
    [environ |-> "Environ", session |-> "Session"],
    [tok |-> "token"] }

(***************************************************************************)
(* The plan builder.                                                       *)
(***************************************************************************)
\* is_context_manager(cls): hasattr(cls, '__enter__') and
\* hasattr(cls, '__exit__'); None has neither.
is_context_manager_enter_only(cls) == cls \in HasEnter

is_context_manager(cls) == cls \in HasEnter /\ cls \in HasExit

\* provides_parameterized_type(func)
provides_parameterized_type(func) ==
  \E i \in 1..Len(Funcs[func].params) : Funcs[func].params[i].ann = ParamName

\* get_key(cls, param_name, parameterized_types)
get_key(cls, param_name, parameterized_types) ==
  IF cls = None THEN ""
  ELSE IF param_name # None /\ cls \in parameterized_types
       THEN LowerName[cls] \o ":" \o param_name
       ELSE LowerName[cls]

\* The outcome of a build: the steps, or the exception raised.
Built(steps) == [ok |-> TRUE, steps |-> steps, err |-> None]

Raised(err) == [ok |-> FALSE, steps |-> <<>>, err |-> err]

\* The parameters of func kept by the filter keep(param), in order.
RECURSIVE SelectParams(_, _)
SelectParams(params, keepParamName) ==
  IF params = <<>> THEN <<>>
  ELSE IF (Head(params).ann = ParamName) = keepParamName
       THEN <<Head(params)>> \o SelectParams(Tail(params), keepParamName)
       ELSE SelectParams(Tail(params), keepParamName)

\* The Step tuple with each ParamName parameter bound to its own name
\* instead of the name the callable was requested under.
StepTuple_ownname(func, params, provided_type, param_name, parameterized_types) ==
  LET deps   == SelectParams(params, FALSE)
      marks  == SelectParams(params, TRUE)
  IN [ func        |-> func,
       input_keys  |-> [i \in 1..Len(deps) |->
                          [arg |-> deps[i].name,
                           key |-> get_key(deps[i].ann, deps[i].name,
                                           parameterized_types)]],
       input_types |-> [i \in 1..Len(params) |->
                          [arg |-> params[i].name, type |-> params[i].ann]],
       output_key  |-> get_key(provided_type, param_name,
                               parameterized_types),
       output_type |-> provided_type,
       param_names |-> [i \in 1..Len(marks) |->
                          [arg |-> marks[i].name, name |-> marks[i].name]],
       is_context_manager |-> is_context_manager(provided_type) ]

\* The Step tuple of lines 168-192, for the parameters given.
StepTuple(func, params, provided_type, param_name, parameterized_types) ==
  LET deps   == SelectParams(params, FALSE)
      marks  == SelectParams(params, TRUE)
  IN [ func        |-> func,
       input_keys  |-> [i \in 1..Len(deps) |->
                          [arg |-> deps[i].name,
                           key |-> get_key(deps[i].ann, deps[i].name,
                                           parameterized_types)]],
       input_types |-> [i \in 1..Len(params) |->
                          [arg |-> params[i].name, type |-> params[i].ann]],
       output_key  |-> get_key(provided_type, param_name,
                               parameterized_types),
       output_type |-> provided_type,
       \* None when empty: the empty sequence stands for None
       param_names |-> [i \in 1..Len(marks) |->
                          [arg |-> marks[i].name, name |-> param_name]],
       is_context_manager |-> is_context_manager(provided_type) ]

\* create_step(func, provided_type, param_name, parameterized_types)
create_step(func, provided_type, param_name, parameterized_types) ==
  LET params == Funcs[func].params
  IN IF \E i \in 1..Len(params) : params[i].ann \in {Empty, StrAnn}
     THEN Raised("AssertionError")
     ELSE Built(<<StepTuple(func, params, provided_type, param_name,
                            parameterized_types)>>)

\* The keys the steps produce (core.py lines 223-225).
OutputKeys(steps) == {steps[i].output_key : i \in 1..Len(steps)}

\* create_steps(func, provided_type, param_name, providers,
\*              parameterized_types, seen_keys), at recursion depth `depth`.
\* ParamLoop is its loop over the parameters from the i-th on, with the
\* steps and the seen keys collected so far.
RECURSIVE create_steps(_, _, _, _, _, _, _)
RECURSIVE ParamLoop(_, _, _, _, _, _, _)
RECURSIVE ParamLoop_unseen(_, _, _, _, _, _, _)
\* The loop without line 223: the keys of the steps found for one parameter
\* are not seen when the next parameter is looked at.
ParamLoop_unseen(params, i, steps, seen_keys, providers, parameterized_types, depth) ==
  IF i > Len(params) THEN Built(steps)
  ELSE
    LET param == params[i]
        key   == get_key(param.ann, param.name, parameterized_types)
    IN IF param.ann = StrAnn
       THEN Raised("AttributeError")
       ELSE IF key \in seen_keys \/ param.ann = ParamName
       THEN ParamLoop_unseen(params, i + 1, steps, seen_keys,
                             providers, parameterized_types, depth)
       ELSE IF param.ann = Empty \/ param.ann \notin DOMAIN providers
       THEN Raised("AssertionError")
       ELSE
         LET param_steps == create_steps(providers[param.ann], param.ann,
                                         param.name, providers,
                                         parameterized_types, seen_keys,
                                         depth + 1)
         IN IF ~param_steps.ok THEN param_steps
            ELSE ParamLoop_unseen(params, i + 1, steps \o param_steps.steps,
                                  seen_keys, providers, parameterized_types,
                                  depth)

ParamLoop(params, i, steps, seen_keys, providers, parameterized_types, depth) ==
  IF i > Len(params) THEN Built(steps)
  ELSE
    LET param == params[i]
        key   == get_key(param.ann, param.name, parameterized_types)
    IN IF param.ann = StrAnn
       THEN Raised("AttributeError")    \* line 149: a str has no __name__
       ELSE IF key \in seen_keys \/ param.ann = ParamName
       THEN ParamLoop(params, i + 1, steps, seen_keys,
                      providers, parameterized_types, depth)
       ELSE IF param.ann = Empty \/ param.ann \notin DOMAIN providers
       THEN Raised("AssertionError")
       ELSE
         LET param_steps == create_steps(providers[param.ann], param.ann,
                                         param.name, providers,
                                         parameterized_types, seen_keys,
                                         depth + 1)
         IN IF ~param_steps.ok THEN param_steps
            ELSE ParamLoop(params, i + 1, steps \o param_steps.steps,
                           seen_keys \cup OutputKeys(param_steps.steps),
                           providers, parameterized_types, depth)

\* create_steps that takes a parameter without a usable annotation for one
\* that is not injected: it is left out of the loop and of the step.
RECURSIVE Annotated(_)
Annotated(params) ==
  IF params = <<>> THEN <<>>
  ELSE IF Head(params).ann \in {Empty, StrAnn} THEN Annotated(Tail(params))
       ELSE <<Head(params)>> \o Annotated(Tail(params))

create_steps_lenient(func, provided_type, param_name, providers, parameterized_types, seen_keys, depth) ==
  IF depth > RecursionLimit THEN Raised("RecursionError")
  ELSE
    LET before == ParamLoop(Annotated(Funcs[func].params), 1, <<>>, seen_keys,
                            providers, parameterized_types, depth)
    IN IF ~before.ok THEN before
       ELSE Built(before.steps \o
                  <<StepTuple(func, Annotated(Funcs[func].params),
                              provided_type, param_name,
                              parameterized_types)>>)

\* create_steps with its own step emitted before the steps of its parameters.
create_steps_preorder(func, provided_type, param_name, providers, parameterized_types, seen_keys, depth) ==
  IF depth > RecursionLimit THEN Raised("RecursionError")
  ELSE
    LET before == ParamLoop(Funcs[func].params, 1, <<>>, seen_keys,
                            providers, parameterized_types, depth)
    IN IF ~before.ok THEN before
       ELSE LET step == create_step(func, provided_type, param_name,
                                    parameterized_types)
            IN IF ~step.ok THEN step
               ELSE Built(step.steps \o before.steps)

create_steps(func, provided_type, param_name, providers, parameterized_types, seen_keys, depth) ==
  IF depth > RecursionLimit THEN Raised("RecursionError")
  ELSE
    LET before == ParamLoop(Funcs[func].params, 1, <<>>, seen_keys,
                            providers, parameterized_types, depth)
    IN IF ~before.ok THEN before
       ELSE LET step == create_step(func, provided_type, param_name,
                                    parameterized_types)
            IN IF ~step.ok THEN step
               ELSE Built(before.steps \o step.steps)

\* InjectedFunction.__init__: the state_key_mapping.
StateKeyMapping(required_state) ==
  [name \in DOMAIN required_state |-> get_key(required_state[name], None, {})]

\* Injector.inject(func): the steps built, or the exception raised.
ParameterizedTypes(providers) ==
  {t \in DOMAIN providers : provides_parameterized_type(providers[t])}

\* No key seen at the start: the required state is not looked at.
InitialSeenKeys_none(required_state) == {}

InitialSeenKeys(required_state) ==
  {get_key(required_state[name], None, {}) : name \in DOMAIN required_state}

inject(func, providers, required_state) ==
  create_steps(func, None, None, providers, ParameterizedTypes(providers),
               InitialSeenKeys(required_state), 1)

(***************************************************************************)
(* The state.                                                              *)
(***************************************************************************)
\* The concurrent callers of the injected function.
Runs == {1, 2}

VARIABLES
  providers,       \* Injector.providers: type -> callable
  required_state,  \* Injector.required_state: name -> type
  adds,            \* the callables registered so far, in order
  injected,        \* what Injector.inject returned or raised
  calls,           \* per caller: the position and locals of its __call__
  frames           \* per call frame: the locals `state` and `stack`

vars == <<providers, required_state, adds, injected, calls, frames>>

(***************************************************************************)
(* The values the providers work on.                                       *)
(***************************************************************************)
\* The value caller r supplies under an external-input name.
InputValue(r, name) == [ext |-> name, run |-> r]

\* What a provider returns: a term over the keyword arguments it got.
Apply(func, kwargs) == [f |-> func, kw |-> kwargs]

\* What entering a context manager returns: cm.__enter__().
Entered(cm) == [entered |-> cm]

\* A ParamName argument.
NameValue(name) == [pname |-> name]

\* Python's None as a value.
NoneValue == [none |-> TRUE]

(***************************************************************************)
(* The arguments of a call: the `state` dict (or None) and, as the part    *)
(* of the caller's input that decides which provider raises, an oracle.    *)
(***************************************************************************)
\* The order in which a caller inserts names into its state dict.
NameOrder == <<"environ", "lookups", "session", "tok", "bogus">>

\* A name no required_state declares.
Undeclared == "bogus"

RECURSIVE Restrict(_, _)
Restrict(seq, S) ==
  IF seq = <<>> THEN <<>>
  ELSE IF Head(seq) \in S THEN <<Head(seq)>> \o Restrict(Tail(seq), S)
       ELSE Restrict(Tail(seq), S)

\* state=None, or a dict over the names of S.
NoArg == [given |-> FALSE, names |-> <<>>]

DictArg(S) == [given |-> TRUE, names |-> Restrict(NameOrder, S)]

ArgChoices(declared) ==
  {NoArg, DictArg(declared), DictArg(declared \cup {Undeclared})}
    \cup {DictArg(declared \ {n}) : n \in declared}

NoFailure == [at |-> 0, kind |-> "none"]

OracleChoices(steps) ==
  {NoFailure}
    \cup {[at |-> k, kind |-> "call"] : k \in 1..Len(steps)}
    \cup {[at |-> k, kind |-> "enter"] :
            k \in {i \in 1..Len(steps) : steps[i].is_context_manager}}

(***************************************************************************)
(* InjectedFunction.__call__, one provider call or one release at a time.  *)
(* A call is a pair [c, l]: c its position, inputs and observable events,  *)
(* l the locals `state` and `stack`.                                       *)
(***************************************************************************)
Event(kind, i) == [ev |-> kind, step |-> i]

IdleCall ==
  [ phase |-> "idle", arg |-> NoArg, oracle |-> NoFailure, pc |-> 0,
    ret |-> NoneValue, exc |-> None, received |-> FALSE,
    suppressed |-> FALSE, pending |-> FALSE, events |-> <<>>,
    result |-> NoneValue, err |-> None ]

EmptyFrame == [state |-> EmptyMap, stack |-> <<>>]

\* The rekeying with every declared key preset, whatever the caller gave.
RECURSIVE MapStateDefaults(_, _, _, _)
MapStateDefaults(names, mapping, r, state) ==
  IF names = <<>>
  THEN [k \in Range(mapping) \cup DOMAIN state |->
          IF k \in DOMAIN state THEN state[k] ELSE NoneValue]
  ELSE MapStateDefaults(Tail(names), mapping, r,
         Put(state, mapping[Head(names)], InputValue(r, Head(names))))

\* Lines 34-37: the caller's dict, rekeyed by the state_key_mapping.
RECURSIVE MapState(_, _, _, _)
MapState(names, mapping, r, state) ==
  IF names = <<>> THEN state
  ELSE MapState(Tail(names), mapping, r,
                Put(state, mapping[Head(names)], InputValue(r, Head(names))))

\* ExitStack.__exit__ once no callback is left, and what the with statement
\* and __call__ make of it.
Finalize(c) ==
  IF c.pending
  THEN [c EXCEPT !.phase = "raised", !.err = c.exc]
  ELSE IF c.received /\ c.suppressed
  THEN [c EXCEPT !.phase = "returned", !.result = NoneValue]
  ELSE IF c.received
  THEN [c EXCEPT !.phase = "raised", !.err = c.exc]
  ELSE [c EXCEPT !.phase = "returned", !.result = c.ret]

Settle(c, l) ==
  IF l.stack = <<>> THEN [c |-> Finalize(c), l |-> l] ELSE [c |-> c, l |-> l]

\* Leaving without a with block: an exception skips the releases.
LeaveNoUnwind(c, l, exc) ==
  IF exc # None
  THEN [c |-> [c EXCEPT !.phase = "raised", !.exc = exc, !.err = exc,
                        !.received = TRUE],
        l |-> l]
  ELSE Settle([c EXCEPT !.phase = "unwinding", !.exc = exc,
                        !.received = FALSE], l)

\* Leaving the with block: by `return ret` (exc = None) or by an exception.
Leave(c, l, exc) ==
  Settle([c EXCEPT !.phase = "unwinding", !.exc = exc,
                   !.received = (exc # None)], l)

\* Entering without registering the exit callback.
enter_unregistered(stack, i) == stack

\* Popping the callbacks first in, first out.
PopCallbackFifo(stack) ==
  [cb |-> stack[1], rest |-> SubSeq(stack, 2, Len(stack))]

\* ExitStack.enter_context(cm): registers cm.__exit__ for step i.
enter_context(stack, i) == Append(stack, i)

\* ExitStack.__exit__ pops the callbacks last in, first out.
PopCallback(stack) ==
  [cb |-> stack[Len(stack)], rest |-> SubSeq(stack, 1, Len(stack) - 1)]

\* The keyword arguments of a step (lines 41-46).
Kwargs(step, state) ==
  [a \in {step.input_keys[j].arg : j \in 1..Len(step.input_keys)}
         \cup {step.param_names[j].arg : j \in 1..Len(step.param_names)} |->
     IF \E j \in 1..Len(step.param_names) : step.param_names[j].arg = a
     THEN NameValue((CHOOSE m \in SeqRange(step.param_names) : m.arg = a).name)
     ELSE state[(CHOOSE k \in SeqRange(step.input_keys) : k.arg = a).key]]

\* One iteration of the loop over the steps (lines 40-50), with the return
\* of line 51 after the last.
RunStep(steps, c, l) ==
  LET step   == steps[c.pc]
      called == [c EXCEPT !.events = Append(@, Event("call", c.pc))]
  IN IF \E j \in 1..Len(step.input_keys) :
          step.input_keys[j].key \notin DOMAIN l.state
     THEN Leave(c, l, "KeyError")
     ELSE IF c.oracle.at = c.pc /\ c.oracle.kind = "call"
     THEN Leave(called, l, "ProviderError")
     ELSE IF step.is_context_manager
             /\ c.oracle.at = c.pc /\ c.oracle.kind = "enter"
     THEN Leave(called, l, "EnterError")
     ELSE
       LET ret  == Apply(step.func, Kwargs(step, l.state))
           c2   == IF step.is_context_manager
                   THEN [called EXCEPT
                           !.events = Append(@, Event("acquire", c.pc))]
                   ELSE called
           l2   == [state |-> Put(l.state, step.output_key, ret),
                    stack |-> IF step.is_context_manager
                              THEN enter_context(l.stack, c.pc)
                              ELSE l.stack]
       IN IF c.pc = Len(steps)
          THEN Leave([c2 EXCEPT !.ret = ret], l2, None)
          ELSE [c |-> [c2 EXCEPT !.pc = c.pc + 1, !.ret = ret], l |-> l2]

\* One iteration of ExitStack.__exit__'s loop over the callbacks.
RunExit(steps, c, l) ==
  LET top  == PopCallback(l.stack)
      does == ExitBehaviour(steps[top.cb].output_type)
      c1   == [c EXCEPT !.events = Append(@, Event("release", top.cb))]
      c2   == CASE does = "suppress" ->
                     [c1 EXCEPT !.suppressed = TRUE, !.pending = FALSE,
                                !.exc = None]
                [] does = "raise" ->
                     [c1 EXCEPT !.pending = TRUE, !.exc = "ExitError"]
                [] OTHER -> c1
  IN IF l.stack = <<>> THEN Settle(c, l)
     ELSE Settle(c2, [l EXCEPT !.stack = top.rest])

\* The prologue with the names the mapping does not know dropped, as a
\* rekeying that skipped them would do.
StartCall_lenient(mapping, r, arg, oracle) ==
  LET c == [IdleCall EXCEPT !.arg = arg, !.oracle = oracle]
  IN [c |-> [c EXCEPT !.phase = "running", !.pc = 1],
      l |-> [state |-> MapState(Restrict(arg.names, DOMAIN mapping),
                                mapping, r, EmptyMap),
             stack |-> <<>>]]

\* Lines 29-39: the call begins.
StartCall(mapping, r, arg, oracle) ==
  LET c == [IdleCall EXCEPT !.arg = arg, !.oracle = oracle]
  IN IF arg.given /\ \E i \in 1..Len(arg.names) :
                        arg.names[i] \notin DOMAIN mapping
     THEN [c |-> [c EXCEPT !.phase = "raised", !.err = "KeyError"],
           l |-> EmptyFrame]
     ELSE [c |-> [c EXCEPT !.phase = "running", !.pc = 1],
           l |-> [state |-> MapState(arg.names, mapping, r, EmptyMap),
                  stack |-> <<>>]]

Advance(steps, c, l) ==
  IF c.phase = "running" THEN RunStep(steps, c, l) ELSE RunExit(steps, c, l)

Finished(c) == c.phase \in {"returned", "raised"}

(***************************************************************************)
(* The operations.                                                         *)
(***************************************************************************)
NotInjected ==
  [ status |-> "none", target |-> None, steps |-> <<>>,
    state_key_mapping |-> EmptyMap, err |-> None ]

\* One frame for every caller, as if `state` and `stack` were attributes of
\* the InjectedFunction.
FrameShared(r) == 1

\* The call frame whose locals caller r's __call__ works on: its own.
FrameOf(r) == r

\* The `state` of the call before kept for the next one, as a dict held in
\* an attribute of the InjectedFunction or in a default argument would be.
NewFrame_kept(last) == [state |-> last.state, stack |-> <<>>]

\* The locals a call begins on, and what is left of them once it has
\* returned: `state` and `stack` are local names bound anew by lines 32-39,
\* so nothing the call before had in them is there.
NewFrame(last) == EmptyFrame

\* The locals after lines 32-39 on the frame the call began on.
Bind(frame, l) == [state |-> l.state @@ frame.state, stack |-> l.stack]

\* _get_default_injector(): the process-wide Injector, created empty on first
\* use and kept from then on.  An Injector that was never configured and no
\* Injector at all look the same: no providers, no required state.
default_injector_fresh == [providers |-> EmptyMap, required_state |-> EmptyMap]

default_injector == [providers |-> providers, required_state |-> required_state]

\* Injector.add_provider(func)
AddProvider(func) ==
  /\ Len(adds) < MaxAdds
  /\ Funcs[func].ret \notin {Empty, StrAnn}
  /\ providers' = Put(providers, Funcs[func].ret, func)
  /\ adds' = Append(adds, func)
  /\ UNCHANGED <<required_state, injected, calls, frames>>

\* wrappers.provider(func): as add_provider on the default injector, after
\* the assertions on the parameters' annotations; a failed assertion leaves
\* the injector as it was.
Provider(func) ==
  /\ Len(adds) < MaxRegistrations
  /\ \A i \in 1..Len(Funcs[func].params) :
        Funcs[func].params[i].ann \notin {Empty, StrAnn}
  /\ Funcs[func].ret \notin {Empty, StrAnn}
  /\ providers' = Put(default_injector.providers, Funcs[func].ret, func)
  /\ required_state' = default_injector.required_state
  /\ adds' = Append(adds, func)
  /\ UNCHANGED <<injected, calls, frames>>

\* wrappers.set_required_state(required_state)
SetRequiredState(rs) ==
  /\ rs # required_state
  /\ required_state' = rs
  /\ providers' = default_injector.providers
  /\ UNCHANGED <<adds, injected, calls, frames>>

\* Injector.inject(func)
Inject(func) ==
  /\ injected.status = "none"
  /\ LET built == inject(func, providers, required_state)
     IN injected' =
          [ status |-> IF built.ok THEN "built" ELSE "failed",
            target |-> func,
            steps  |-> built.steps,
            state_key_mapping |->
              IF built.ok THEN StateKeyMapping(required_state) ELSE EmptyMap,
            err    |-> built.err ]
  /\ UNCHANGED <<providers, required_state, adds, calls, frames>>

\* The steps re-resolved against the Injector as it is now, as if the
\* InjectedFunction kept the Injector instead of the steps built from it.
steps_resolved_late ==
  LET again == inject(injected.target, providers, required_state)
  IN IF injected.status = "built" /\ again.ok THEN again.steps
     ELSE injected.steps

\* self.steps and self.state_key_mapping of the InjectedFunction: what
\* __init__ stored (lines 23-27), whatever became of the Injector since.
self_steps == injected.steps

self_state_key_mapping == injected.state_key_mapping

\* InjectedFunction.__call__(state) begins in caller r.
Call(r, arg, oracle) ==
  /\ injected.status = "built"
  /\ calls[r].phase = "idle"
  /\ LET begun == StartCall(self_state_key_mapping, r, arg, oracle)
     IN /\ calls' = [calls EXCEPT ![r] = begun.c]
        /\ frames' = [frames EXCEPT
                        ![FrameOf(r)] = Bind(NewFrame(@), begun.l)]
  /\ UNCHANGED <<providers, required_state, adds, injected>>

\* The call of caller r runs its next step, or its next release.
Step(r) ==
  /\ calls[r].phase \in {"running", "unwinding"}
  /\ LET next == Advance(self_steps, calls[r], frames[FrameOf(r)])
     IN /\ calls' = [calls EXCEPT ![r] = next.c]
        /\ frames' = [frames EXCEPT ![FrameOf(r)] = next.l]
  /\ UNCHANGED <<providers, required_state, adds, injected>>

\* The caller has its result or its exception; the locals are gone.
Return(r) ==
  /\ Finished(calls[r])
  /\ calls' = [calls EXCEPT ![r] = IdleCall]
  /\ frames' = [frames EXCEPT ![FrameOf(r)] = NewFrame(@)]
  /\ UNCHANGED <<providers, required_state, adds, injected>>

\* The callables registered with add_provider after construction.
AddedProviders ==
  {"get_headers2", "new_token", "named_raw", "bare_lock", "lazy_conn",
   "token_of_a"}

\* The configuration of the Injector before anything is injected.
Configure ==
  /\ injected.status = "none"
  /\ \/ \E func \in AddedProviders : AddProvider(func)
     \/ \E rs \in RequiredStates : SetRequiredState(rs)

Build == \E func \in Targets : Inject(func)

RunOf(r) ==
  \/ \E arg \in ArgChoices(DOMAIN self_state_key_mapping) :
       \E oracle \in OracleChoices(self_steps) : Call(r, arg, oracle)
  \/ Step(r)
  \/ Return(r)

(***************************************************************************)
(* Spec: any configuration, one build, calls one after another.            *)
(***************************************************************************)
Init ==
  /\ providers \in Registries
  /\ required_state \in RequiredStates
  /\ adds = <<>>
  /\ injected = NotInjected
  /\ calls = [r \in Runs |-> IdleCall]
  /\ frames = [r \in Runs |-> EmptyFrame]

Next == Configure \/ Build \/ RunOf(1)

Spec == Init /\ [][Next]_vars

(***************************************************************************)
(* SpecConc: one injected function called by two callers whose calls       *)
(* interleave step by step.                                                *)
(***************************************************************************)
InitConc ==
  /\ providers = FullRegistry
  /\ required_state = [environ |-> "Environ", lookups |-> "Lookups"]
  /\ adds = <<>>
  /\ injected = NotInjected
  /\ calls = [r \in Runs |-> IdleCall]
  /\ frames = [r \in Runs |-> EmptyFrame]

NextConc == Build \/ \E r \in Runs : RunOf(r)

SpecConc == InitConc /\ [][NextConc]_vars

(***************************************************************************)
(* SpecMut: one Injector that goes on being configured after a function    *)
(* was injected, while the injected function is called.                    *)
(***************************************************************************)
\* The callables registered late: replacements of providers of the
\* configuration, and a provider of a type it has none for.
LateProviders == {"get_headers2", "named_wrap", "bare_lock", "carry"}

Reconfigure ==
  /\ injected.status = "built"
  /\ \/ \E func \in LateProviders : AddProvider(func)
     \/ \E func \in LateProviders : Provider(func)
     \/ \E rs \in RequiredStates : SetRequiredState(rs)

InitMut ==
  /\ providers = FullRegistry
  /\ required_state \in { [environ |-> "Environ", lookups |-> "Lookups"],
                          [environ |-> "Environ", session |-> "Session"] }
  /\ adds = <<>>
  /\ injected = NotInjected
  /\ calls = [r \in Runs |-> IdleCall]
  /\ frames = [r \in Runs |-> EmptyFrame]

NextMut == Build \/ Reconfigure \/ RunOf(1)

SpecMut == InitMut /\ [][NextMut]_vars

(***************************************************************************)
(* SpecWrap: the module-level wrappers.  The default injector starts       *)
(* empty; provider and set_required_state configure it, inject builds on   *)
(* it, and the injected function is called.                                *)
(***************************************************************************)
\* The callables decorated with @dependency.provider.
WrapProviders ==
  {"get_method", "get_headers", "get_headers2", "new_session", "bare_lock"}

ConfigureDefault ==
  /\ injected.status = "none"
  /\ \/ \E func \in WrapProviders : Provider(func)
     \/ \E rs \in RequiredStates : SetRequiredState(rs)

InitWrap ==
  /\ providers = EmptyMap
  /\ required_state = EmptyMap
  /\ adds = <<>>
  /\ injected = NotInjected
  /\ calls = [r \in Runs |-> IdleCall]
  /\ frames = [r \in Runs |-> EmptyFrame]

NextWrap == ConfigureDefault \/ Build \/ RunOf(1)

SpecWrap == InitWrap /\ [][NextWrap]_vars

(***************************************************************************)
(* Notions the properties are stated in.                                   *)
(***************************************************************************)
IsBuilt == injected.status = "built"

Plan == self_steps

Reverse(seq) == [i \in 1..Len(seq) |-> seq[Len(seq) + 1 - i]]

IsPrefix(a, b) == Len(a) <= Len(b) /\ SubSeq(b, 1, Len(a)) = a

\* The steps a call has called, acquired or released, in the order it did.
StepsOf(c, kind) ==
  LET of == SelectSeq(c.events, LAMBDA e : e.ev = kind)
  IN [i \in 1..Len(of) |-> of[i].step]

\* How often the event happened in the call.
Count(c, kind, i) ==
  Cardinality({n \in 1..Len(c.events) : c.events[n] = Event(kind, i)})

\* The positions of the event in the call's events.
Positions(c, kind, i) == {n \in 1..Len(c.events) : c.events[n] = Event(kind, i)}

\* The callables of the plan that declare a parameter of type t.
Requirers(t) ==
  {Plan[i].func : i \in {h \in 1..Len(Plan) :
      \E j \in 1..Len(Plan[h].input_types) : Plan[h].input_types[j].type = t}}

\* The parameter names under which the plan's callables request type t.
RequestNames(t) ==
  UNION {{Plan[i].input_types[j].arg :
            j \in {h \in 1..Len(Plan[i].input_types) :
                     Plan[i].input_types[h].type = t}} : i \in 1..Len(Plan)}

\* The positions of the steps that produce the key.
Producers(key) == {i \in 1..Len(Plan) : Plan[i].output_key = key}

\* The types the target needs, directly or through the providers of the
\* types it needs; an externally supplied type is not looked into.
External == Range(required_state)

Needs(func) == {Funcs[func].params[i].ann : i \in 1..Len(Funcs[func].params)} \ {ParamName}

RECURSIVE Closure(_)
Closure(S) ==
  LET more == UNION {Needs(providers[t]) : t \in (S \cap DOMAIN providers) \ External}
  IN IF more \subseteq S THEN S ELSE Closure(S \cup more)

Required == Closure(Needs(injected.target))

\* The keys the caller's dict supplies.
Supplied(c) == {injected.state_key_mapping[c.arg.names[i]] : i \in 1..Len(c.arg.names)}

\* The steps that look up a key that neither the caller nor an earlier step
\* supplies.
Starved(c) ==
  {i \in 1..Len(Plan) : \E j \in 1..Len(Plan[i].input_keys) :
      /\ Plan[i].input_keys[j].key \notin Supplied(c)
      /\ \A h \in 1..(i - 1) : Plan[h].output_key # Plan[i].input_keys[j].key}

\* The dependency types the plan deals in: those its callables declare as
\* parameters, those its steps produce and the external ones.
PlanTypes ==
  (UNION {{Plan[i].input_types[j].type : j \in 1..Len(Plan[i].input_types)}
             \cup {Plan[i].output_type} : i \in 1..Len(Plan)}
     \cup External) \ {ParamName, None}

\* The parameter names under which the plan's callables request something.
PlanNames ==
  UNION {{Plan[i].input_types[j].arg : j \in 1..Len(Plan[i].input_types)} :
           i \in 1..Len(Plan)}

\* The type of the value a step finds under the key: that of the last
\* earlier step that wrote the key, else that of the external input.
SourceType(i, key) ==
  LET writers == {h \in 1..(i - 1) : Plan[h].output_key = key}
  IN IF writers # {}
     THEN Plan[CHOOSE h \in writers : \A g \in writers : g <= h].output_type
     ELSE IF \E t \in External : get_key(t, None, {}) = key
     THEN CHOOSE t \in External : get_key(t, None, {}) = key
     ELSE None

\* The depth-first post-order of the dependency graph of a callable that
\* provides type t under parameter name n, the keys in `seen` skipped: for
\* each parameter in declaration order whose key is not seen yet, the
\* post-order of the provider of its type, then the callable itself.  Each
\* entry is the callable and the key it provides.
RECURSIVE PostOrder(_, _, _, _)
RECURSIVE PostOrderOfInputs(_, _, _, _)
PostOrderOfInputs(params, i, found, seen) ==
  IF i > Len(params) THEN found
  ELSE LET P   == ParameterizedTypes(providers)
           key == get_key(params[i].ann, params[i].name, P)
       IN IF params[i].ann = ParamName \/ key \in seen
          THEN PostOrderOfInputs(params, i + 1, found, seen)
          ELSE LET sub == PostOrder(providers[params[i].ann], params[i].ann,
                                    params[i].name, seen)
               IN PostOrderOfInputs(params, i + 1, found \o sub,
                    seen \cup {sub[j].key : j \in 1..Len(sub)})

PostOrder(func, t, n, seen) ==
  PostOrderOfInputs(Funcs[func].params, 1, <<>>, seen)
    \o <<[func |-> func, key |-> get_key(t, n, ParameterizedTypes(providers))]>>

\* The callables the build reaches: the target and the providers of the
\* types it needs.
Reached ==
  {injected.target}
    \cup {providers[t] : t \in (Required \cap DOMAIN providers) \ External}

\* The callable declares a parameter with no annotation or with a string.
Unannotated(func) ==
  \E i \in 1..Len(Funcs[func].params) :
    Funcs[func].params[i].ann \in {Empty, StrAnn}

\* The providers dict an Injector is constructed with when it is to hold
\* the callables registered, each under its return annotation, a later
\* one replacing an earlier one of the same type.
RECURSIVE ProvidersOf(_)
ProvidersOf(funcs) ==
  IF funcs = <<>> THEN EmptyMap
  ELSE Put(ProvidersOf(SubSeq(funcs, 1, Len(funcs) - 1)),
           Funcs[funcs[Len(funcs)]].ret, funcs[Len(funcs)])

\* The external type t is left to the caller: no step of the plan produces
\* it, every parameter of type t takes the key of the external input, which
\* no step writes, and a step that is about to run finds under that key a
\* value the caller gave under a name declared with that key.
LeftToCaller(t) ==
  LET key == get_key(t, None, {})
  IN /\ \A i \in 1..Len(Plan) : Plan[i].output_type # t
     /\ Producers(key) = {}
     /\ \A i \in 1..Len(Plan) : \A j \in 1..Len(Plan[i].input_keys) :
          \A k \in 1..Len(Plan[i].input_types) :
            ( /\ Plan[i].input_types[k].type = t
              /\ Plan[i].input_types[k].arg = Plan[i].input_keys[j].arg )
            => /\ Plan[i].input_keys[j].key = key
               /\ \A r \in Runs :
                    ( /\ calls[r].phase = "running"
                      /\ calls[r].pc = i
                      /\ key \in DOMAIN frames[r].state )
                    => \E n \in SeqRange(calls[r].arg.names) :
                         /\ injected.state_key_mapping[n] = key
                         /\ frames[r].state[key] = InputValue(r, n)

\* The parameters of the callable that are annotated ParamName, and the
\* others.
MarkerArgs(func) ==
  {Funcs[func].params[i].name :
     i \in {h \in 1..Len(Funcs[func].params) :
              Funcs[func].params[h].ann = ParamName}}

PlainArgs(func) ==
  {Funcs[func].params[i].name :
     i \in {h \in 1..Len(Funcs[func].params) :
              Funcs[func].params[h].ann # ParamName}}

\* The name the step's callable was requested under: that of a parameter of
\* the step's output type, declared by a later step, whose key is the
\* step's output key; None for the target, which nothing requests.
RequestedAs(i) ==
  IF i = Len(Plan) THEN {None}
  ELSE UNION {{Plan[j].input_types[k].arg :
                 k \in {h \in 1..Len(Plan[j].input_types) :
                   /\ Plan[j].input_types[h].type = Plan[i].output_type
                   /\ [arg |-> Plan[j].input_types[h].arg,
                       key |-> Plan[i].output_key]
                        \in SeqRange(Plan[j].input_keys)}} :
              j \in (i + 1)..Len(Plan)}

\* The call of caller r run to its end alone, on locals of its own.
RECURSIVE SoloRun(_, _)
SoloRun(steps, call) ==
  IF Finished(call.c) THEN call.c
  ELSE SoloRun(steps, Advance(steps, call.c, call.l))

Alone(r) ==
  SoloRun(Plan, StartCall(self_state_key_mapping, r,
                          calls[r].arg, calls[r].oracle))

(***************************************************************************)
(* The build.                                                              *)
(***************************************************************************)
\* C1: in a built plan, every key a step consumes is the output key of an
\* earlier step of the plan or the key of a declared external input.
C1_Topological ==
  IsBuilt =>
    \A i \in 1..Len(Plan) : \A j \in 1..Len(Plan[i].input_keys) :
      \/ \E h \in 1..(i - 1) : Plan[h].output_key = Plan[i].input_keys[j].key
      \/ Plan[i].input_keys[j].key \in Range(injected.state_key_mapping)

\* A built plan with a step that consumes both a key an earlier step
\* produced and a key of the external inputs.
C1_Witness ==
  /\ IsBuilt
  /\ \E i \in 1..Len(Plan) : \E j, k \in 1..Len(Plan[i].input_keys) :
       /\ \E h \in 1..(i - 1) : Plan[h].output_key = Plan[i].input_keys[j].key
       /\ Plan[i].input_keys[k].key \in Range(injected.state_key_mapping)
       /\ Plan[i].input_keys[k].key \notin OutputKeys(Plan)

\* C2: a type that is not name-parameterized (and has to be produced: it is
\* not an external input) and that two or more callables of the plan require
\* is the output of exactly one step of the plan.
C2_Deduplicated ==
  IsBuilt =>
    \A t \in Types :
      ( /\ t \notin ParameterizedTypes(providers)
        /\ t \notin External
        /\ Cardinality(Requirers(t)) >= 2 )
      => Cardinality(Producers(get_key(t, None, {}))) = 1

\* C3: for a name-parameterized type t, every parameter name n under which
\* the plan requests t has exactly one step that produces t under the
\* output key 't:n' (distinct names give distinct keys, hence distinct
\* steps).
C3_NameParameterized ==
  IsBuilt =>
    \A t \in ParameterizedTypes(providers) : \A n \in RequestNames(t) :
      Cardinality({i \in Producers(LowerName[t] \o ":" \o n) :
                     Plan[i].output_type = t}) = 1

\* C8: when the target needs, directly or through providers, a type with no
\* registered provider that is not an external input, inject fails.
C8_UnresolvedFails ==
  ( /\ injected.status # "none"
    /\ \E t \in Required : t \notin DOMAIN providers /\ t \notin External )
  => injected.status = "failed"

(***************************************************************************)
(* The run.                                                                *)
(***************************************************************************)
\* C4: a call releases the resources it acquired in the reverse of the order
\* of acquisition: none while the steps run, and all of them by the time it
\* returns or raises, whether a step failed or not.
C4_ReleasedInReverse ==
  \A r \in Runs :
    LET c   == calls[r]
        acq == StepsOf(c, "acquire")
        rel == StepsOf(c, "release")
    IN /\ IsPrefix(rel, Reverse(acq))
       /\ c.phase = "running" => rel = <<>>
       /\ Finished(c) => rel = Reverse(acq)

\* A call that raised after a step failed with two or more resources held.
C4_Witness ==
  /\ calls[1].phase = "raised"
  /\ calls[1].received
  /\ Len(StepsOf(calls[1], "acquire")) >= 2

\* C5: when the provider of step k raises, no step after k is called or
\* acquired, and when the call ends the resources released are exactly the
\* context-manager steps before k, each once.
C5_FailureReleasesAcquired ==
  \A r \in Runs :
    LET c   == calls[r]
        k   == c.oracle.at
        rel == StepsOf(c, "release")
    IN (c.oracle.kind = "call" /\ Count(c, "call", k) > 0) =>
         /\ c.phase # "running"
         /\ \A n \in 1..Len(c.events) : c.events[n].step <= k
         /\ Count(c, "acquire", k) = 0
         /\ Finished(c) =>
              /\ SeqRange(rel) = {i \in 1..(k - 1) : Plan[i].is_context_manager}
              /\ SeqRange(rel) = SeqRange(StepsOf(c, "acquire"))
              /\ \A i \in SeqRange(rel) : Count(c, "release", i) = 1

\* A call that ended after the provider of a step raised with a resource
\* held.
C5_Witness ==
  /\ Finished(calls[1])
  /\ calls[1].oracle.kind = "call"
  /\ Count(calls[1], "call", calls[1].oracle.at) = 1
  /\ Len(StepsOf(calls[1], "release")) >= 2

\* C6: in a call that returns with no step having failed, every
\* context-manager step is acquired once and released once, and its release
\* comes after the calls of the steps that consume it and of the target.
C6_ReleasedAfterUse ==
  \A r \in Runs :
    LET c == calls[r]
    IN (c.phase = "returned" /\ ~c.received) =>
         \A i \in {h \in 1..Len(Plan) : Plan[h].is_context_manager} :
           /\ Count(c, "acquire", i) = 1
           /\ Count(c, "release", i) = 1
           /\ \A j \in 1..Len(Plan) :
                ( \/ j = Len(Plan)
                  \/ \E m \in 1..Len(Plan[j].input_keys) :
                       Plan[j].input_keys[m].key = Plan[i].output_key )
                => \A a \in Positions(c, "release", i) :
                     \A b \in Positions(c, "call", j) : b < a

\* A call that returned the target's value after it used a resource.
C6_Witness ==
  /\ calls[1].phase = "returned"
  /\ ~calls[1].received
  /\ \E i \in 1..(Len(Plan) - 1) :
       /\ Plan[i].is_context_manager
       /\ \E m \in 1..Len(Plan[Len(Plan)].input_keys) :
            Plan[Len(Plan)].input_keys[m].key = Plan[i].output_key

\* C7: the value stored under the output key of a context-manager step is
\* the value that entering the provider's result returned.
C7_EnteredValueStored ==
  \A r \in Runs : \A i \in 1..Len(Plan) :
    ( /\ Count(calls[r], "acquire", i) > 0
      /\ Plan[i].output_key \in DOMAIN frames[r].state )
    => \E v \in {frames[r].state[Plan[i].output_key]} :
         DOMAIN v = {"entered"}

\* C9, as claimed: a call on a plan with declared external inputs that is
\* given no dict, or a dict without one of the declared names, fails: it
\* does not end with every step called and the target's value returned.
C9_OmittedNameFails ==
  \A r \in Runs :
    LET c == calls[r]
    IN ( /\ Finished(c)
         /\ DOMAIN injected.state_key_mapping # {}
         /\ \E n \in DOMAIN injected.state_key_mapping :
              n \notin SeqRange(c.arg.names) )
       => c.phase = "raised" \/ c.received

\* C9, amended: a call whose dict (of declared names) leaves some step
\* without a key it consumes never calls the first such step or a later
\* one and does not return the target's value; when no earlier step fails
\* and no release suppresses or raises, it raises the missing-key error.
C9_StarvedStepFails ==
  \A r \in Runs :
    LET c == calls[r]
    IN ( /\ c.phase # "idle"
         /\ SeqRange(c.arg.names) \subseteq DOMAIN injected.state_key_mapping
         /\ Starved(c) # {} )
       => LET m == CHOOSE i \in Starved(c) : \A h \in Starved(c) : i <= h
          IN /\ \A n \in 1..Len(c.events) :
                  c.events[n].ev = "call" => c.events[n].step < m
             /\ ~(c.phase = "returned" /\ ~c.received)
             /\ ( /\ Finished(c)
                  /\ c.oracle.at \notin 1..(m - 1)
                  /\ ~c.suppressed
                  /\ ~c.pending )
                => c.phase = "raised" /\ c.err = "KeyError"

\* A call that raised the missing-key error at a step after it had called
\* an earlier one.
C9_Witness ==
  /\ calls[1].phase = "raised"
  /\ calls[1].err = "KeyError"
  /\ calls[1].arg.given
  /\ SeqRange(calls[1].arg.names) \subseteq DOMAIN injected.state_key_mapping
  /\ Starved(calls[1]) # {}
  /\ Len(calls[1].events) >= 1

\* C10: a call interleaved with another caller's call does what it does
\* alone: while it runs its events are a prefix of those of the call alone,
\* and once it has ended its events, its outcome and its result or error
\* are those of the call alone.
C10_Isolated ==
  \A r \in Runs :
    LET c == calls[r]
    IN c.phase # "idle" =>
         /\ IsPrefix(c.events, Alone(r).events)
         /\ Finished(c) =>
              /\ c.events = Alone(r).events
              /\ c.phase = Alone(r).phase
              /\ c.result = Alone(r).result
              /\ c.err = Alone(r).err

\* Two calls in progress at once, each past its first step, the first
\* holding a resource.
C10_Witness ==
  /\ calls[1].phase = "running" /\ calls[1].pc > 1
  /\ calls[2].phase = "running" /\ calls[2].pc > 1
  /\ frames[1].stack # <<>>
  /\ calls[1].arg # calls[2].arg

(***************************************************************************)
(* The injected function and its Injector.                                 *)
(***************************************************************************)
\* C11: once a function is injected, no later add_provider, provider or
\* set_required_state changes the steps or the state_key_mapping of the
\* injected function, and every call, whenever the Injector changed, calls
\* the steps and ends as the call on the injected function as built does.
C11_PlanFrozen ==
  /\ [][ IsBuilt =>
          /\ self_steps' = self_steps
          /\ self_state_key_mapping' = self_state_key_mapping ]_vars
  /\ [](\A r \in Runs :
          LET c    == calls[r]
              asis == SoloRun(injected.steps,
                              StartCall(injected.state_key_mapping, r,
                                        c.arg, c.oracle))
          IN c.phase # "idle" =>
               /\ IsPrefix(c.events, asis.events)
               /\ Finished(c) => c = asis)

\* A call in progress, past its first step, on an injected function whose
\* Injector has since got another provider for the type of one of the
\* plan's steps and another required state.
C11_Witness ==
  /\ IsBuilt
  /\ \E i \in 1..Len(Plan) :
       /\ Plan[i].output_type \in DOMAIN providers
       /\ providers[Plan[i].output_type] # Plan[i].func
  /\ DOMAIN required_state # DOMAIN self_state_key_mapping
  /\ calls[1].phase = "running"
  /\ calls[1].pc > 1

(***************************************************************************)
(* Failures of a run.                                                      *)
(***************************************************************************)
\* C12: a call in which the provider of a step raised ends by raising to
\* its caller, whatever the releases of the resources it held did: it never
\* returns.
C12_FailureSurfaces ==
  \A r \in Runs :
    LET c == calls[r]
    IN ( /\ Finished(c)
         /\ c.oracle.kind = "call"
         /\ Count(c, "call", c.oracle.at) > 0 )
       => c.phase = "raised"

(***************************************************************************)
(* The keys.                                                               *)
(***************************************************************************)
\* C13: get_key is injective on the types a plan deals in: two distinct
\* types never get the same key, under whatever parameter names, and a
\* name-parameterized type gets distinct keys under distinct names; so
\* every parameter of every step is supplied from a key written for the
\* parameter's own type.
C13_KeysInjective ==
  IsBuilt =>
    LET P == ParameterizedTypes(providers)
        N == PlanNames \cup {None}
    IN /\ \A t1, t2 \in PlanTypes : \A n1, n2 \in N :
            t1 # t2 => get_key(t1, n1, P) # get_key(t2, n2, P)
       /\ \A t \in PlanTypes \cap P : \A n1, n2 \in N :
            n1 # n2 => get_key(t, n1, P) # get_key(t, n2, P)
       /\ \A i \in 1..Len(Plan) : \A j \in 1..Len(Plan[i].input_keys) :
            \A k \in 1..Len(Plan[i].input_types) :
              Plan[i].input_types[k].arg = Plan[i].input_keys[j].arg
                => SourceType(i, Plan[i].input_keys[j].key)
                     = Plan[i].input_types[k].type

(***************************************************************************)
(* The order of the plan.                                                  *)
(***************************************************************************)
\* C14: a built plan is the depth-first post-order of the target's
\* dependency graph with the keys already seen skipped (parameters in
\* declaration order, the steps found for a provider's parameters directly
\* before the provider's own step) and the target's step is last.
C14_PostOrder ==
  IsBuilt =>
    /\ [i \in 1..Len(Plan) |->
          [func |-> Plan[i].func, key |-> Plan[i].output_key]]
         = PostOrder(injected.target, None, None,
                     {get_key(t, None, {}) : t \in External})
    /\ Plan[Len(Plan)].func = injected.target
    /\ Plan[Len(Plan)].output_key = ""

\* A built plan of four steps or more in which a key is consumed by two
\* steps, the second of which found it already seen.
C14_Witness ==
  /\ IsBuilt
  /\ Len(Plan) >= 4
  /\ \E h \in 1..Len(Plan) :
       Cardinality({i \in 1..Len(Plan) :
          \E j \in 1..Len(Plan[i].input_keys) :
            Plan[i].input_keys[j].key = Plan[h].output_key}) >= 2

(***************************************************************************)
(* Annotations.                                                            *)
(***************************************************************************)
\* C15: when the target or a provider the build reaches declares a
\* parameter with no annotation or with a string annotation, inject fails:
\* no function is injected.
C15_UnannotatedFails ==
  ( /\ injected.status # "none"
    /\ \E func \in Reached : Unannotated(func) )
  => injected.status = "failed" /\ injected.steps = <<>>

\* A failed inject of a target whose own parameters are all annotated and
\* resolvable, where a provider it reaches declares such a parameter.
C15_Witness ==
  /\ injected.status = "failed"
  /\ ~Unannotated(injected.target)
  /\ \E func \in Reached : Unannotated(func)
  /\ \A t \in Required \ {Empty, StrAnn} :
       t \in DOMAIN providers \/ t \in External

(***************************************************************************)
(* The wrappers.                                                           *)
(***************************************************************************)
\* C16: what wrappers.inject builds on the default injector, after the
\* provider and set_required_state calls made, is what the inject of an
\* Injector constructed with the same providers and the same required
\* state builds (the same steps, or a failure where that fails), and a
\* call of it goes and ends as a call of that one does.
C16_WrappersAgree ==
  injected.status # "none" =>
    LET explicit == inject(injected.target, ProvidersOf(adds), required_state)
        mapping  == StateKeyMapping(required_state)
    IN /\ IsBuilt = explicit.ok
       /\ injected.steps = explicit.steps
       /\ IsBuilt => injected.state_key_mapping = mapping
       /\ \A r \in Runs :
            LET c    == calls[r]
                solo == SoloRun(explicit.steps,
                                StartCall(mapping, r, c.arg, c.oracle))
            IN c.phase # "idle" =>
                 /\ IsPrefix(c.events, solo.events)
                 /\ Finished(c) => c = solo

\* A call that returned the value of a target injected through the
\* wrappers after two providers and a required state were registered.
C16_Witness ==
  /\ IsBuilt
  /\ Len(adds) >= 2
  /\ required_state # EmptyMap
  /\ Len(Plan) >= 3
  /\ calls[1].phase = "returned"
  /\ ~calls[1].received

(***************************************************************************)
(* A run, step by step.                                                    *)
(***************************************************************************)
\* C17: while a call runs, its state holds the external inputs the caller
\* gave and, for every step already run, under the step's output key, the
\* value that step produced; a call that returns with no step having
\* failed has called every step of the plan once, in the order of the
\* plan, and returns the value the last step, the target's, produced.
C17_RunsThePlan ==
  \A r \in Runs :
    LET c == calls[r]
        l == frames[r]
    IN /\ c.phase = "running" =>
            /\ StepsOf(c, "call") = [i \in 1..(c.pc - 1) |-> i]
            /\ \A h \in 1..(c.pc - 1) :
                 /\ Plan[h].output_key \in DOMAIN l.state
                 /\ "f" \in DOMAIN l.state[Plan[h].output_key]
                 /\ l.state[Plan[h].output_key].f = Plan[h].func
            /\ \A i \in 1..Len(c.arg.names) :
                 LET key == injected.state_key_mapping[c.arg.names[i]]
                 IN /\ key \in DOMAIN l.state
                    /\ l.state[key] = InputValue(r, c.arg.names[i])
       /\ (c.phase = "returned" /\ ~c.received) =>
            /\ StepsOf(c, "call") = [i \in 1..Len(Plan) |-> i]
            /\ c.result = Apply(Plan[Len(Plan)].func,
                                Kwargs(Plan[Len(Plan)], l.state))

(***************************************************************************)
(* External inputs and providers.                                          *)
(***************************************************************************)
\* C18, as claimed: no step of a built plan produces a type of the required
\* state, whether a provider is registered for the type or not, and every
\* step that consumes the type is given the caller's value.
C18_ExternalNeverProduced ==
  IsBuilt => \A t \in External : LeftToCaller(t)

\* C18, amended: the same for every type of the required state whose
\* registered provider, if it has one, declares no ParamName parameter.
C18_PlainExternalNotProduced ==
  IsBuilt =>
    \A t \in External \ ParameterizedTypes(providers) : LeftToCaller(t)

\* A call about to run a step that consumes a type of the required state
\* for which a provider is registered too.
C18_Witness ==
  /\ IsBuilt
  /\ calls[1].phase = "running"
  /\ \E t \in (External \cap DOMAIN providers) \ ParameterizedTypes(providers) :
       /\ get_key(t, None, {}) \in DOMAIN frames[1].state
       /\ \E k \in 1..Len(Plan[calls[1].pc].input_types) :
            Plan[calls[1].pc].input_types[k].type = t

(***************************************************************************)
(* ParamName parameters.                                                   *)
(***************************************************************************)
\* C19: in a built plan no step produces ParamName and no step takes a
\* ParamName parameter from a key; each step binds exactly its ParamName
\* parameters, each to the one name its callable was requested under (the
\* name the step's output key ends in), and a call passes the step's
\* callable that name for each of them and state values for the others.
C19_ParamNameBound ==
  IsBuilt =>
    /\ \A i \in 1..Len(Plan) :
         LET step == Plan[i]
         IN /\ step.output_type # ParamName
            /\ step.output_key # LowerName[ParamName]
            /\ {step.input_keys[j].arg : j \in 1..Len(step.input_keys)}
                 = PlainArgs(step.func)
            /\ \A j \in 1..Len(step.input_keys) :
                 step.input_keys[j].key # LowerName[ParamName]
            /\ {step.param_names[j].arg : j \in 1..Len(step.param_names)}
                 = MarkerArgs(step.func)
            /\ \A j \in 1..Len(step.param_names) :
                 /\ RequestedAs(i) = {step.param_names[j].name}
                 /\ i < Len(Plan) =>
                      step.output_key = LowerName[step.output_type] \o ":"
                                          \o step.param_names[j].name
    /\ \A r \in Runs :
         LET c == calls[r]
             i == c.pc - 1
         IN (c.phase = "running" /\ c.pc > 1) =>
              /\ c.ret.f = Plan[i].func
              /\ DOMAIN c.ret.kw = MarkerArgs(Plan[i].func)
                                     \cup PlainArgs(Plan[i].func)
              /\ \A j \in 1..Len(Plan[i].param_names) :
                   c.ret.kw[Plan[i].param_names[j].arg]
                     = NameValue(Plan[i].param_names[j].name)

\* A call that has run the same provider twice, as two steps bound to two
\* different names.
C19_Witness ==
  /\ IsBuilt
  /\ calls[1].phase = "running"
  /\ \E i, j \in 1..(calls[1].pc - 1) :
       /\ i < j
       /\ Plan[i].func = Plan[j].func
       /\ Plan[i].param_names # <<>>
       /\ Plan[i].param_names # Plan[j].param_names

(***************************************************************************)
(* Which steps are context managers.                                       *)
(***************************************************************************)
\* C20: a step of a built plan is flagged is_context_manager exactly when
\* the type it provides, the type its callable is registered under, defines
\* both __enter__ and __exit__; the target's step is not flagged; and a
\* call enters the value of each flagged step it gets past once, and of no
\* other step.
C20_FlaggedByType ==
  IsBuilt =>
    /\ \A i \in 1..(Len(Plan) - 1) :
         /\ Plan[i].output_type \in DOMAIN providers
         /\ providers[Plan[i].output_type] = Plan[i].func
         /\ Plan[i].is_context_manager
              = (Plan[i].output_type \in ContextManagers)
    /\ ~Plan[Len(Plan)].is_context_manager
    /\ \A r \in Runs : \A h \in 1..Len(Plan) :
         LET c == calls[r]
         IN /\ Count(c, "acquire", h) > 0 => Plan[h].is_context_manager
            /\ (Count(c, "call", h) > 0 /\ c.oracle.at # h) =>
                 Count(c, "acquire", h)
                   = IF Plan[h].is_context_manager THEN 1 ELSE 0

\* A call that returned after it entered the value of a flagged step and
\* called the target, whose value it did not enter.
C20_Witness ==
  /\ IsBuilt
  /\ calls[1].phase = "returned"
  /\ ~calls[1].received
  /\ \E h \in 1..(Len(Plan) - 1) :
       Plan[h].is_context_manager /\ Count(calls[1], "acquire", h) = 1
  /\ Count(calls[1], "call", Len(Plan)) = 1
  /\ Count(calls[1], "acquire", Len(Plan)) = 0

(***************************************************************************)
(* What a run leaves behind.                                               *)
(***************************************************************************)
\* The keys of the external inputs the call of caller r was given.
InputKeys(r) ==
  {self_state_key_mapping[n] :
     n \in SeqRange(calls[r].arg.names) \cap DOMAIN self_state_key_mapping}

\* The value under key k is the one caller r gave for this call.
OwnInput(r, k, v) ==
  \E n \in SeqRange(calls[r].arg.names) \cap DOMAIN self_state_key_mapping :
     self_state_key_mapping[n] = k /\ v = InputValue(r, n)

\* The value under key k is what a step this call has called returned.
OwnOutput(r, k, v) ==
  \E i \in 1..Len(Plan) :
     /\ Count(calls[r], "call", i) > 0
     /\ Plan[i].output_key = k
     /\ "f" \in DOMAIN v
     /\ v.f = Plan[i].func

\* C21: no step of a call, whether the call returns or raises, changes the
\* steps or the state_key_mapping of the injected function or the state
\* argument the caller gave; a call past its prologue with no step called
\* yet has in its state exactly the inputs it was given, under their keys;
\* and every value in the state of a call is an input of this call or the
\* return value of a step this call has called.
C21_RunLeavesNoTrace ==
  /\ [][ (\E r \in Runs : calls'[r] # calls[r]) =>
          /\ self_steps' = self_steps
          /\ self_state_key_mapping' = self_state_key_mapping ]_vars
  /\ [][ \A r \in Runs :
          (calls[r].phase # "idle" /\ calls'[r].phase # "idle") =>
            calls'[r].arg = calls[r].arg ]_vars
  /\ [](\A r \in Runs :
          LET c == calls[r]
              l == frames[FrameOf(r)]
          IN c.phase # "idle" =>
               /\ (c.phase = "running" /\ c.pc = 1) =>
                    DOMAIN l.state = InputKeys(r)
               /\ \A k \in DOMAIN l.state :
                    OwnInput(r, k, l.state[k]) \/ OwnOutput(r, k, l.state[k]))

\* A call given no state at all on an injected function that declares
\* external inputs, past its first step: its state holds what its steps
\* returned and no external input, though a call before it may have been
\* given every one.
C21_Witness ==
  /\ IsBuilt
  /\ DOMAIN self_state_key_mapping # {}
  /\ calls[1].phase = "running"
  /\ calls[1].pc > 1
  /\ ~calls[1].arg.given
  /\ DOMAIN frames[FrameOf(1)].state # {}

\* The names of the state argument of the call of caller r that were not in
\* the required state the function was injected with.
UndeclaredNames(r) ==
  SeqRange(calls[r].arg.names) \ DOMAIN self_state_key_mapping

\* C22: a call whose state argument has a name that was not in the required
\* state the function was injected with has raised KeyError, and it is never
\* in progress: it has called no step, entered no context manager and
\* released none, and its frame holds no state and no registered exit.
C22_UndeclaredNameFailsFirst ==
  \A r \in Runs :
    LET c == calls[r]
        l == frames[FrameOf(r)]
    IN (c.phase # "idle" /\ c.arg.given /\ UndeclaredNames(r) # {}) =>
         /\ c.phase = "raised"
         /\ c.err = "KeyError"
         /\ c.events = <<>>
         /\ l.stack = <<>>
         /\ l.state = EmptyMap

\* A call that raised on an undeclared name, given next to every declared
\* one, on a plan that has a context manager among its steps and whose
\* first step needs no input at all.
C22_Witness ==
  /\ IsBuilt
  /\ calls[1].phase = "raised"
  /\ calls[1].arg.given
  /\ Undeclared \in UndeclaredNames(1)
  /\ DOMAIN self_state_key_mapping \subseteq SeqRange(calls[1].arg.names)
  /\ DOMAIN self_state_key_mapping # {}
  /\ \E i \in 1..Len(Plan) : Plan[i].is_context_manager
  /\ Plan[1].input_keys = <<>>

(***************************************************************************)
(* Termination of the build.                                               *)
(***************************************************************************)
\* Every type the target needs, directly or through providers, is a class
\* with a registered provider or an external input.
Resolvable ==
  \A t \in Required :
    t \in Types /\ (t \in DOMAIN providers \/ t \in External)

\* The type has a provider that needs it, directly or through the providers
\* of the types it needs, with no external input on the way.
OnCycle(t) ==
  /\ t \in DOMAIN providers
  /\ t \notin External
  /\ t \in Closure(Needs(providers[t]))

\* C23: inject returns an injected function whenever every type the target
\* needs, directly or through providers, is registered or external and
\* none of them needs itself through providers; and whenever one of them
\* needs itself through providers, with no external input on the cycle,
\* inject returns no injected function.
C23_BuildTerminates ==
  injected.status # "none" =>
    /\ (Resolvable /\ \A t \in Required : ~OnCycle(t)) =>
         injected.status = "built"
    /\ (\E t \in Required : OnCycle(t)) => injected.status = "failed"

====
